---- MODULE Spec2Model ----
(***************************************************************************)
(* Model of src/cable.py: class Cable, one point-to-point analog channel.  *)
(*                                                                         *)
(* Floats are fixed-point integers in units of 1/Scale.  numpy arrays are  *)
(* objects on a heap, so that `signal.copy()` (a new object) differs from  *)
(* a plain assignment (an alias).  Each method of Cable is one action; a   *)
(* method that raises ends its action at the raise, with the assignments   *)
(* made before it kept.                                                    *)
(***************************************************************************)
EXTENDS Integers, Sequences, FiniteSets

\* ------------------------------------------------------------------ bounds
MaxLen == 2
RngPeriod == 2

\* Fixed-point unit: the integer v stands for the float v / Scale.
Scale == 100
\* The divisor of line 59 and 162.
Hundred == 100
\* plot_signals' default max_samples.
DefaultMaxSamples == 1000

Samples == {0, 200}
Lengths == {100}
Attenuations == {0, 10}
NoiseLevels == {0, 50}
SignalSpeeds == {0, 2}

NoneRef == "None"
NoArray == [dtype |-> "none", data |-> << >>]

RECURSIVE SeqsUpTo(_, _)
SeqsUpTo(S, n) ==
    IF n = 0 THEN {<< >>}
    ELSE LET shorter == SeqsUpTo(S, n - 1)
         IN  shorter \cup {Append(s, x) : s \in {t \in shorter : Len(t) = n - 1}, x \in S}

\* The arrays a caller passes: float64 arrays of up to MaxLen samples (the
\* empty one included), and arrays of a dtype with no arithmetic (strings).
FloatArrays == {[dtype |-> "float64", data |-> s] : s \in SeqsUpTo(Samples, MaxLen)}
StrArrays == {[dtype |-> "str", data |-> s] : s \in SeqsUpTo({0}, MaxLen) \ {<< >>}}
Signals == FloatArrays \cup StrArrays

\* --------------------------------------------------------------- numerics
RECURSIVE SumSeq(_)
SumSeq(s) == IF s = << >> THEN 0 ELSE Head(s) + SumSeq(Tail(s))

\* Fixed-point product, rounded down.
FMul(a, b) == (a * b) \div Scale

\* exp(x) for x <= 0 by its power series in fixed point.
RECURSIVE ExpTerms(_, _, _)
ExpTerms(x, term, k) ==
    IF term = 0 \/ k > 12 THEN 0
    ELSE term + ExpTerms(x, (term * x) \div (k * Scale), k + 1)

Exp(x) == ExpTerms(x, Scale, 1)

ISqrt(n) == CHOOSE r \in 0..(n + 1) : r * r <= n /\ (r + 1) * (r + 1) > n

\* ------------------------------------------------------------------ state
VARIABLES
    length,              \* self.length
    attenuation,         \* self.attenuation
    noise_level,         \* self.noise_level
    debug_mode,          \* self.debug_mode
    last_input_signal,   \* self.last_input_signal: NoneRef or a heap cell
    last_output_signal,  \* self.last_output_signal: NoneRef or a heap cell
    heap,                \* the live numpy arrays, by the name that made them
    rng,                 \* the state of numpy's global generator np.random
    op,                  \* the call made last
    ret,                 \* how that call ended: a return value or an exception
    called,              \* history: some transmit call has been made
    completed,           \* history: some transmit call has returned
    seeded,              \* history: np.random.seed has been called
    rng_at_call,         \* history: the generator's state when transmit was last called
    last_call,           \* history: the last transmit call's argument and result
    again,               \* history: the last two calls were both get_signal_stats
    mark                 \* history: one earlier transmit call that returned

config == <<length, attenuation, noise_level, debug_mode>>
record == <<last_input_signal, last_output_signal>>
vars == <<length, attenuation, noise_level, debug_mode, last_input_signal,
          last_output_signal, heap, rng, op, ret, called, completed, seeded,
          rng_at_call, last_call, again, mark>>

\* What a call other than transmit leaves alone besides the object's fields.
history == <<called, completed, seeded, rng_at_call, last_call, mark>>

\* Heap cells: the caller's array, and the arrays transmit allocates at
\* line 55 (in_copy), 60 (attenuated), 65 (noisy) and 70 (out_copy).
Cells == {"signal", "in_copy", "attenuated", "noisy", "out_copy"}

NoMark == [set |-> FALSE, signal |-> NoArray, rng |-> 0, seeded |-> FALSE, out |-> NoArray]

Returned(v, shown) == [kind |-> "return", value |-> v, shown |-> shown]
Raised(e) == [kind |-> "raise", value |-> e, shown |-> FALSE]

Deref(ref) == IF ref = NoneRef THEN NoArray ELSE heap[ref]

\* ---------------------------------------------------------------- __init__
Init ==
    /\ length \in Lengths
    /\ attenuation \in Attenuations
    /\ noise_level \in NoiseLevels
    /\ debug_mode \in BOOLEAN
    /\ last_input_signal = NoneRef
    /\ last_output_signal = NoneRef
    /\ heap = [c \in Cells |-> NoArray]
    /\ rng \in 0..(RngPeriod - 1)
    /\ op = "__init__"
    /\ ret = Returned(NoneRef, FALSE)
    /\ called = FALSE
    /\ completed = FALSE
    /\ seeded = FALSE
    /\ rng_at_call = rng
    /\ last_call = [returned |-> FALSE, signal |-> NoArray, out |-> NoArray]
    /\ again = FALSE
    /\ mark = NoMark

\* ---------------------------------------------------------------- transmit
\* Mutant of AttenuationFactor: the exponent's minus sign is lost.
AttenuationFactorGrows == Exp((attenuation * length) \div Hundred)

\* np.exp(-self.attenuation * self.length / 100), lines 59 and 162.
AttenuationFactor == Exp((-attenuation * length) \div Hundred)

\* signal * attenuation_factor, line 60: numpy has no multiply loop for a
\* string dtype and raises TypeError.
CanMultiply(arr) == arr.dtype = "float64"

\* Mutant of Attenuate: the product is taken of the record's input, which
\* is still the previous call's, where there is one.
AttenuateRecord(arr, factor) ==
    LET src == IF last_input_signal = NoneRef THEN arr ELSE heap[last_input_signal]
    IN  [dtype |-> "float64", data |-> [i \in 1..Len(src.data) |-> FMul(src.data[i], factor)]]

Attenuate(arr, factor) ==
    [dtype |-> "float64", data |-> [i \in 1..Len(arr.data) |-> FMul(arr.data[i], factor)]]

\* The k-th standard normal variate the generator yields from state s.
GaussUnit(s) == IF s % 2 = 0 THEN 50 * (s + 1) ELSE -50 * (s + 1)

\* np.random.normal(0, sigma, n) drawn from generator state s, line 64.
Normal(s, sigma, n) == [i \in 1..n |-> FMul(GaussUnit((s + i - 1) % RngPeriod), sigma)]

\* The generator's state after n draws.
Advance(s, n) == (s + n) % RngPeriod

NoiseEnabled == noise_level > 0

\* attenuated_signal + noise, line 65.
AddNoise(arr, noise) ==
    [dtype |-> "float64", data |-> [i \in 1..Len(arr.data) |-> arr.data[i] + noise[i]]]

\* Lines 62-67: the value of noisy_signal.
NoisySignal(attenuated) ==
    IF NoiseEnabled
    THEN AddNoise(attenuated, Normal(rng, noise_level, Len(attenuated.data)))
    ELSE attenuated

\* Line 67 binds noisy_signal to the attenuated array itself; line 65 makes
\* a new one.
NoisyCell == IF NoiseEnabled THEN "noisy" ELSE "attenuated"

\* Line 55: self.last_input_signal = signal.copy().
InputRecordCell == "in_copy"
\* Line 70: self.last_output_signal = noisy_signal.copy().
OutputRecordCell(noisy_cell) == "out_copy"

Take(s, n) == IF Len(s) <= n THEN s ELSE SubSeq(s, 1, n)

\* plot_signals' figure for the records in heap h: the two series cut to
\* max_samples, or FALSE ("No signal data available", nothing drawn).
Figure(h, in_ref, out_ref, max_samples) ==
    IF in_ref = NoneRef \/ out_ref = NoneRef THEN FALSE
    ELSE [input |-> Take(h[in_ref].data, max_samples),
          output |-> Take(h[out_ref].data, max_samples)]

\* Mutant of KeepsConfig: the factor is stored over the coefficient.
StoresFactor ==
    /\ attenuation' = AttenuationFactor
    /\ UNCHANGED <<length, noise_level, debug_mode>>

\* Lines 35-38 are the only assignments to the configuration fields.
KeepsConfig == UNCHANGED config

Transmit(signal, remember) ==
    LET afterSave == [heap EXCEPT !["signal"] = signal, !["in_copy"] = signal]
    IN
    /\ op' = "transmit"
    /\ called' = TRUE
    /\ rng_at_call' = rng
    /\ again' = FALSE
    /\ last_input_signal' = InputRecordCell
    /\ KeepsConfig
    /\ UNCHANGED seeded
    /\ IF ~CanMultiply(signal)
       THEN \* line 60 raises: lines 61-76 do not run
            /\ heap' = [afterSave EXCEPT !["attenuated"] = NoArray, !["noisy"] = NoArray]
            /\ ret' = Raised("TypeError")
            /\ last_call' = [returned |-> FALSE, signal |-> signal, out |-> NoArray]
            /\ UNCHANGED <<last_output_signal, rng, completed, mark>>
       ELSE LET attenuated == Attenuate(signal, AttenuationFactor)
                noisy == NoisySignal(attenuated)
                out_cell == OutputRecordCell(NoisyCell)
                h == [afterSave EXCEPT
                        !["attenuated"] = IF NoiseEnabled THEN NoArray ELSE attenuated,
                        !["noisy"] = IF NoiseEnabled THEN noisy ELSE NoArray,
                        !["out_copy"] = noisy]
            IN  /\ heap' = h
                /\ last_output_signal' = out_cell
                /\ rng' = IF NoiseEnabled THEN Advance(rng, Len(signal.data)) ELSE rng
                /\ ret' = Returned(NoisyCell,
                                   IF debug_mode
                                   THEN Figure(h, InputRecordCell, out_cell, DefaultMaxSamples)
                                   ELSE FALSE)
                /\ completed' = TRUE
                /\ last_call' = [returned |-> TRUE, signal |-> signal, out |-> noisy]
                /\ mark' = IF remember
                           THEN [set |-> TRUE, signal |-> signal, rng |-> rng,
                                 seeded |-> seeded, out |-> noisy]
                           ELSE mark

\* ------------------------------------------------- get_propagation_delay
\* self.length / signal_speed, line 89; Python raises on a zero divisor.
GetPropagationDelay(signal_speed) ==
    /\ op' = "get_propagation_delay"
    /\ ret' = IF signal_speed = 0 THEN Raised("ZeroDivisionError")
              ELSE Returned((length * Scale) \div signal_speed, FALSE)
    /\ again' = FALSE
    /\ KeepsConfig
    /\ UNCHANGED <<record, heap, rng, history>>

\* ------------------------------------------------------------ plot_signals
PlotSignals(max_samples) ==
    /\ op' = "plot_signals"
    /\ ret' = Returned(NoneRef, Figure(heap, last_input_signal, last_output_signal, max_samples))
    /\ again' = FALSE
    /\ KeepsConfig
    /\ UNCHANGED <<record, heap, rng, history>>

\* -------------------------------------------------------- float results
Fin(v) == [k |-> "fin", v |-> v]
NaN == [k |-> "nan", v |-> 0]
PosInf == [k |-> "inf", v |-> 0]
NegInf == [k |-> "-inf", v |-> 0]

\* np.mean: the sum over the count; nan (and a warning) for no elements.
Mean(s) == IF Len(s) = 0 THEN NaN ELSE Fin(SumSeq(s) \div Len(s))

\* np.std: the population standard deviation; nan for no elements.
Std(s) ==
    IF Len(s) = 0 THEN NaN
    ELSE LET m == SumSeq(s) \div Len(s)
             sq == [i \in 1..Len(s) |-> (s[i] - m) * (s[i] - m)]
         IN  Fin(ISqrt(SumSeq(sq) \div Len(s)))

\* np.max and np.min: defined for at least one element only.
Max(s) == CHOOSE x \in {s[i] : i \in 1..Len(s)} : \A i \in 1..Len(s) : s[i] <= x
Min(s) == CHOOSE x \in {s[i] : i \in 1..Len(s)} : \A i \in 1..Len(s) : x <= s[i]

RECURSIVE Pow10(_)
Pow10(k) == IF k = 0 THEN 1 ELSE 10 * Pow10(k - 1)

\* floor(log10(a / b)) for a, b > 0.
Log10Floor(a, b) ==
    IF a >= b
    THEN CHOOSE k \in 0..9 : Pow10(k) <= a \div b /\ (k = 9 \/ Pow10(k + 1) > a \div b)
    ELSE LET q == (b + a - 1) \div a   \* ceil(b / a)
         IN  -(CHOOSE j \in 1..9 : q <= Pow10(j) /\ Pow10(j - 1) < q)

\* output - expected with numpy's broadcasting of one-dimensional arrays.
CanBroadcast(a, b) == Len(a) = Len(b) \/ Len(a) = 1 \/ Len(b) = 1
Subtract(a, b) ==
    LET n == IF Len(a) = Len(b) THEN Len(a) ELSE IF Len(a) = 1 THEN Len(b) ELSE Len(a)
    IN  [i \in 1..n |-> (IF Len(a) = 1 THEN a[1] ELSE a[i]) - (IF Len(b) = 1 THEN b[1] ELSE b[i])]

Squares(s) == [i \in 1..Len(s) |-> s[i] * s[i]]

\* _calculate_snr, lines 158-173, on the arrays in_arr and out_arr: how the
\* call ends.
SnrOutcome(in_arr, out_arr) ==
    IF in_arr.dtype = "none" \/ out_arr.dtype = "none" THEN Returned(Fin(0), FALSE)
    ELSE IF ~CanMultiply(in_arr) THEN Raised("TypeError")
    ELSE LET expected_output == Attenuate(in_arr, AttenuationFactor).data
         IN  IF ~CanBroadcast(out_arr.data, expected_output) THEN Raised("ValueError")
             ELSE LET noise == Subtract(out_arr.data, expected_output)
                      signal_power == Mean(Squares(expected_output))
                      noise_power == Mean(Squares(noise))
                  IN  IF noise_power = Fin(0) THEN Returned(PosInf, FALSE)
                      ELSE IF signal_power = NaN \/ noise_power = NaN THEN Returned(NaN, FALSE)
                      ELSE IF signal_power = Fin(0) THEN Returned(NegInf, FALSE)
                      ELSE Returned(Fin(10 * Scale * Log10Floor(signal_power.v, noise_power.v)), FALSE)

CalculateSnr ==
    /\ op' = "_calculate_snr"
    /\ ret' = SnrOutcome(Deref(last_input_signal), Deref(last_output_signal))
    /\ again' = FALSE
    /\ KeepsConfig
    /\ UNCHANGED <<record, heap, rng, history>>

\* -------------------------------------------------------- get_signal_stats
StatKeys == {"input_mean", "input_std", "input_max", "input_min",
             "output_mean", "output_std", "output_max", "output_min", "snr_db"}
EmptyMapping == [key \in {} |-> NaN]

\* The first exception the four reductions of lines 138-141 (142-145) raise
\* on arr, or "none": np.mean has no loop for a string dtype, np.max has no
\* identity for an empty array.
ReduceError(arr) ==
    IF ~CanMultiply(arr) THEN "TypeError"
    ELSE IF Len(arr.data) = 0 THEN "ValueError"
    ELSE "none"

\* get_signal_stats, lines 134-149: how the call ends.
StatsOutcome(in_arr, out_arr) ==
    IF in_arr.dtype = "none" \/ out_arr.dtype = "none" THEN Returned(EmptyMapping, FALSE)
    ELSE IF ReduceError(in_arr) # "none" THEN Raised(ReduceError(in_arr))
    ELSE IF ReduceError(out_arr) # "none" THEN Raised(ReduceError(out_arr))
    ELSE LET snr == SnrOutcome(in_arr, out_arr)
         IN  IF snr.kind = "raise" THEN snr
             ELSE Returned([key \in StatKeys |->
                     CASE key = "input_mean" -> Mean(in_arr.data)
                       [] key = "input_std" -> Std(in_arr.data)
                       [] key = "input_max" -> Fin(Max(in_arr.data))
                       [] key = "input_min" -> Fin(Min(in_arr.data))
                       [] key = "output_mean" -> Mean(out_arr.data)
                       [] key = "output_std" -> Std(out_arr.data)
                       [] key = "output_max" -> Fin(Max(out_arr.data))
                       [] key = "output_min" -> Fin(Min(out_arr.data))
                       [] OTHER -> snr.value], FALSE)

\* Mutant of GetSignalStatsEffect: the records are cleared once reported.
GetSignalStatsClears ==
    /\ last_input_signal' = NoneRef
    /\ last_output_signal' = NoneRef
    /\ UNCHANGED <<heap, rng>>

\* Lines 134-149 read the two records and assign no field.
GetSignalStatsEffect == UNCHANGED <<record, heap, rng>>

GetSignalStats ==
    /\ op' = "get_signal_stats"
    /\ ret' = StatsOutcome(Deref(last_input_signal), Deref(last_output_signal))
    /\ GetSignalStatsEffect
    /\ again' = (op = "get_signal_stats")
    /\ KeepsConfig
    /\ UNCHANGED history

\* ------------------------------------------------------------- the caller
\* np.random.seed(FixedSeed): the generator restarts from the seed's state.
FixedSeed == 0
Seed ==
    /\ op' = "seed"
    /\ rng' = FixedSeed
    /\ seeded' = TRUE
    /\ ret' = Returned(NoneRef, FALSE)
    /\ again' = FALSE
    /\ KeepsConfig
    /\ UNCHANGED <<record, heap, called, completed, rng_at_call, last_call, mark>>

\* Right after a transmit call the caller writes sample v at index i of an
\* array it holds: the one it passed, or the one transmit returned.
CallerWrite(cell, i, v) ==
    /\ op = "transmit"
    /\ cell = "signal" \/ (ret.kind = "return" /\ cell = ret.value)
    /\ heap[cell].dtype = "float64"
    /\ i \in 1..Len(heap[cell].data)
    /\ heap[cell].data[i] # v
    /\ heap' = [heap EXCEPT ![cell].data[i] = v]
    /\ op' = "write"
    /\ again' = FALSE
    /\ KeepsConfig
    /\ UNCHANGED <<record, rng, ret, history>>

Next ==
    \/ \E signal \in Signals : Transmit(signal, FALSE)
    \/ \E signal_speed \in SignalSpeeds : GetPropagationDelay(signal_speed)
    \/ \E max_samples \in {1, DefaultMaxSamples} : PlotSignals(max_samples)
    \/ GetSignalStats
    \/ CalculateSnr
    \/ Seed
    \/ \E cell \in Cells, i \in 1..MaxLen, v \in Samples : CallerWrite(cell, i, v)

Spec == Init /\ [][Next]_vars

\* transmit and the generator alone, with one earlier call that returned
\* remembered in mark (any one, chosen once): the behaviours that compare
\* two transmit calls.
NextRepeat ==
    \/ \E signal \in Signals, remember \in {FALSE, ~mark.set} : Transmit(signal, remember)
    \/ Seed

InitRepeat == Init /\ debug_mode = FALSE

SpecRepeat == InitRepeat /\ [][NextRepeat]_vars
\* ------------------------------------------------------------------ claims
TransmitReturned == op = "transmit" /\ ret.kind = "return"
StatsCalled == op = "get_signal_stats"
BothPresent == last_input_signal # NoneRef /\ last_output_signal # NoneRef

\* C1: on a channel with noise_level = 0, the array transmit returns holds
\* signal[i] * exp(-attenuation * length / 100) at every index i, and no
\* variate is drawn from the generator.
Thm_C1 ==
    (TransmitReturned /\ noise_level = 0) =>
        /\ heap[ret.value].data =
              [i \in 1..Len(heap["signal"].data) |->
                  FMul(heap["signal"].data[i], Exp((-attenuation * length) \div Hundred))]
        /\ rng = rng_at_call

Wit_C1 ==
    /\ TransmitReturned
    /\ noise_level = 0
    /\ attenuation = 10
    /\ heap["signal"].data = <<200, 0>>
    /\ heap[ret.value].data = <<180, 0>>

\* C2: get_signal_stats returns an empty mapping exactly when no transmit
\* call has completed, and once one has completed it returns a mapping with
\* exactly the nine keys.
Orig_C2 ==
    StatsCalled =>
        /\ (ret.kind = "return" /\ DOMAIN ret.value = {}) <=> ~completed
        /\ completed => (ret.kind = "return" /\ DOMAIN ret.value = StatKeys)

\* C3: last_input_signal and last_output_signal are both absent or both
\* present in every state, a transmit call that stops with an error included.
Orig_C3 == (last_input_signal = NoneRef) <=> (last_output_signal = NoneRef)

\* C4: transmit returns an array as long as its argument, and whenever both
\* records are present they are equally long.
Orig_C4 ==
    /\ TransmitReturned => Len(heap[ret.value].data) = Len(last_call.signal.data)
    /\ BothPresent =>
          Len(heap[last_output_signal].data) = Len(heap[last_input_signal].data)

\* C5: on a channel with noise_level = 0, once a transmit call has
\* completed, get_signal_stats reports snr_db as positive infinity.
Orig_C5 ==
    (StatsCalled /\ noise_level = 0 /\ completed) =>
        /\ ret.kind = "return"
        /\ "snr_db" \in DOMAIN ret.value
        /\ ret.value["snr_db"] = PosInf

\* C6: get_signal_stats changes neither the two records, nor the arrays
\* they hold, nor the configuration, and a second call right after a first
\* ends as the first did.
Thm_C6 ==
    [][op' = "get_signal_stats" =>
          /\ config' = config
          /\ record' = record
          /\ heap' = heap
          /\ (op = "get_signal_stats" => ret' = ret)]_vars

Wit_C6 ==
    /\ StatsCalled
    /\ again
    /\ ret.kind = "return"
    /\ DOMAIN ret.value = StatKeys
    /\ ret.value["snr_db"].k = "fin"

\* A returned transmit call whose argument equals that of the remembered
\* earlier call.
SameInputAgain == TransmitReturned /\ mark.set /\ mark.signal = last_call.signal

\* C7 as stated: with the generator seeded with the fixed seed (or noise
\* disabled), a transmit call on the same input as an earlier call returns
\* the same output, whatever was transmitted in between.
Orig_C7 ==
    (SameInputAgain /\ (mark.seeded \/ ~NoiseEnabled)) => last_call.out = mark.out

\* C7 as amended: the outputs are the same when noise is disabled, or when
\* the generator is in the same state at both calls.
Thm_C7 ==
    (SameInputAgain /\ (~NoiseEnabled \/ mark.rng = rng_at_call)) => last_call.out = mark.out

Wit_C7 ==
    /\ SameInputAgain
    /\ NoiseEnabled
    /\ ~mark.seeded
    /\ seeded
    /\ mark.rng = rng_at_call
    /\ Len(last_call.signal.data) = 2
    /\ last_output_signal = "out_copy"
    /\ heap["out_copy"] = mark.out

\* C8: no call changes length, attenuation, noise_level or debug_mode.
Thm_C8 == [][config' = config]_vars

Wit_C8 ==
    /\ StatsCalled
    /\ completed
    /\ seeded
    /\ config = <<100, 10, 50, TRUE>>

\* C9: get_signal_stats returns a mapping, without raising, in every state
\* transmit calls can lead to.
Orig_C9 == StatsCalled => ret.kind = "return"

\* C10: once transmit has been called, the records hold the last call's
\* argument and the value that call returned, whatever the caller has since
\* written to either array.
Orig_C10 ==
    called =>
        /\ last_call.returned
        /\ BothPresent
        /\ heap[last_input_signal] = last_call.signal
        /\ heap[last_output_signal] = last_call.out
====
